---- MODULE Spec2Model ----
(***************************************************************************)
(* Model of code.py: a CircuitPython exporter that reads two I2C sensors   *)
(* (BME680, SCD4X), serves them on /metrics, refreshes a TFT display and   *)
(* feeds the hardware watchdog from one cooperative main loop.             *)
(*                                                                         *)
(* The program counter pc walks the module top level: start-up, then the   *)
(* phases of one iteration of `while True`.  Every fault a driver, the bus,*)
(* the network or the display can raise is an input of the step that may   *)
(* raise it; an exception nobody catches ends the program (pc = "crashed").*)
(* Time is the value of time.monotonic(), in seconds.                      *)
(***************************************************************************)
EXTENDS Integers, Sequences, FiniteSets, TLC

\* ---------------------------------------------------------------- bounds
MaxTime == 400
MaxTicks == 4
MaxReading == 1
MaxCpus == 2
MaxWifiRetries == 1
MaxRestarts == 1

\* ------------------------------------------------------ program constants
DISPLAY_UPDATE_INTERVAL == 10
DISCOVERY_PERIOD == 360
WIFI_RETRY_SLEEP == 3

\* Seconds by which the clock advances from one reading at the top of the
\* loop to the next (the whole length of an iteration).  The clock is sampled coarsely: the two amounts put the
\* elapsed time below, on and above both thresholds within a few iterations.
TickDurations ==
    {DISPLAY_UPDATE_INTERVAL, DISCOVERY_PERIOD - DISPLAY_UPDATE_INTERVAL}

\* Seconds by which the clock advances while metrics_handler reads the
\* sensors, on the same coarse scale (0: too short to matter).
HandlerDurations == {0, DISPLAY_UPDATE_INTERVAL}

Readings == 1..MaxReading
Sensors == {"bme680", "scd4x"}

\* Exception classes that matter to the except clauses of the program.
\* ConnectionError is a subclass of OSError.
ExcKinds == {"OSError", "RuntimeError", "ValueError", "AttributeError"}

NoFault == [where |-> "none", kind |-> "none"]
Fault(w, k) == [where |-> w, kind |-> k]

VARIABLES
    pc,                           \* position in the module top level
    now,                          \* time.monotonic()
    i2c,                          \* I2CSensorsManager._i2c: "none" | "open"
    bme680,                       \* I2CSensorsManager.bme680 is not None
    scd4x,                        \* I2CSensorsManager.scd4x is not None
    scd4x_serial_number,
    bme680_metrics,               \* _bme680_metrics (<<>> while unset)
    scd4x_metrics,                \* _scd4x_metrics
    bme680_last_measurement_time,
    last_discovery_time,
    last_screen_update_time,
    current_time,
    wifi_tries,                   \* failed wifi.radio.connect() calls
    restarts,                     \* supervisor.reload() calls so far
    start_time,                   \* metrics_handler's start_time
    metrics,                      \* the list metrics_handler is building
    response,                     \* lines of the response being returned
    ticks,                        \* iterations of the main loop begun
    feeds,                        \* calls of w.feed()
    fault,                        \* the last exception raised in this run
    ret,                          \* per sensor, what its read returned to the handler
    outcome,                      \* per sensor, how that read went
    lastS,                        \* per sensor, the set of its last good read
    fresh,                        \* per sensor, lastS was read since init()
    init_result,                  \* per sensor, how its last init went
    prev_discovery_time,          \* last_discovery_time when the tick began
    reinit_tick,                  \* deinit() was called in this tick
    absent_before,                \* the slots that were None at deinit(), until poll()
    display_read,                 \* the driver this tick's refresh has read
    reinit_active,                \* between deinit() entry and init() return
    read_active                   \* between read_metrics() entry and return

vars == <<pc, now, i2c, bme680, scd4x, scd4x_serial_number,
          bme680_metrics, scd4x_metrics, bme680_last_measurement_time,
          last_discovery_time, last_screen_update_time, current_time,
          wifi_tries, restarts, start_time, metrics, response, ticks, feeds,
          fault, ret, outcome, lastS,
          fresh, init_result, prev_discovery_time, reinit_tick, absent_before,
          display_read, reinit_active, read_active>>

mgrVars == <<i2c, bme680, scd4x, scd4x_serial_number, bme680_metrics,
             scd4x_metrics, bme680_last_measurement_time>>
readGhost == <<ret, outcome, lastS, fresh>>
timerVars == <<last_discovery_time, last_screen_update_time>>

\* ------------------------------------------------------------ SensorMetric
SensorMetric(name, value, labels) ==
    [name |-> name, value |-> value, labels |-> labels]

\* metric.labels["sensor_type"] = st
SetLabel(m, k, v) ==
    [m EXCEPT !.labels = {kv \in m.labels : kv[1] # k} \cup {<<k, v>>}]

\* The label loop runs over the list that is returned, after the error metric
\* has been appended to it.
ApplySensorType_beforeAppend(ms, st) ==
    [i \in 1..Len(ms) |->
        IF ms[i].name = "sensor_is_error" THEN ms[i]
        ELSE [ms[i] EXCEPT !.labels =
                 {kv \in ms[i].labels : kv[1] # "sensor_type"}
                 \cup {<<"sensor_type", st>>}]]

\* for metric in metrics: metric.labels["sensor_type"] = st
ApplySensorType(ms, st) ==
    [i \in 1..Len(ms) |-> SetLabel(ms[i], "sensor_type", st)]

\* SensorMetric("sensor_is_error", f"Error: {e}", "gauge", 1)
ErrorMetric_zero == SensorMetric("sensor_is_error", 0, {})
ErrorMetric == SensorMetric("sensor_is_error", 1, {})


\* ------------------------------------------------------- I2CSensorsManager
Bme680Schema(r, t) ==
    << SensorMetric("sensor_temperature_celsius", r, {}),
       SensorMetric("sensor_humidity_percent", r, {}),
       SensorMetric("sensor_pressure_hpa", r, {}),
       SensorMetric("sensor_gas_ohms", r, {}),
       SensorMetric("last_measurement_time", t, {}),
       SensorMetric("sensor_info", 1, {<<"sensor_name", "BME680">>}) >>

Scd4xSchema(r, t, serial) ==
    << SensorMetric("sensor_co2_ppm", r, {}),
       SensorMetric("sensor_temperature_celsius", r, {}),
       SensorMetric("sensor_humidity_percent", r, {}),
       SensorMetric("last_measurement_time", t, {}),
       SensorMetric("sensor_info", 1,
                    {<<"sensor_name", "SCD4X">>, <<"serial_number", serial>>}) >>

\* Number of driver attributes a read touches: a fault may come from any.
Bme680Fields == 4
Scd4xFields == 4

\* The except branch appends the error metric to a copy of the cached list
\* ([m for m in ...]); the cached list keeps its elements.
CacheAfterFault_alias(cache, returned) == returned
CacheAfterFault(cache, returned) == cache

\* read_bme680: k = 0 is a read without fault, k > 0 a fault at the k-th
\* attribute; r is what the driver measures, t is time.monotonic().
ReadBme680(present, cache, lmt, t, k, r) ==
    IF ~present
    THEN [ret |-> <<>>, cache |-> cache, lmt |-> lmt, how |-> "absent"]
    ELSE IF k = 0
    THEN LET ms == ApplySensorType(Bme680Schema(r, t), "bme680")
         IN  [ret |-> ms, cache |-> ms, lmt |-> t, how |-> "ok"]
    ELSE LET got == Append(cache, ErrorMetric)
         IN  [ret |-> ApplySensorType(got, "bme680"),
              cache |-> ApplySensorType(CacheAfterFault(cache, got), "bme680"),
              lmt |-> t, how |-> "fault"]

\* read_scd4x with "data not ready" handled like a fault.
ReadScd4x_notReadyIsFault(present, cache, serial, t, k, ready, r) ==
    IF ~present
    THEN [ret |-> <<>>, cache |-> cache, how |-> "absent"]
    ELSE IF k = 0 /\ ready
    THEN LET ms == ApplySensorType(Scd4xSchema(r, t, serial), "scd4x")
         IN  [ret |-> ms, cache |-> ms, how |-> "ok"]
    ELSE LET got == Append(cache, ErrorMetric)
         IN  [ret |-> ApplySensorType(got, "scd4x"),
              cache |-> ApplySensorType(cache, "scd4x"),
              how |-> IF k = 1 \/ (k > 1 /\ ready) THEN "fault"
                      ELSE "notready"]

\* read_scd4x: k = 1 is a fault of sensor.data_ready, k > 1 a fault of the
\* (k-1)-th measurement attribute, which is only touched when data is ready.
ReadScd4x(present, cache, serial, t, k, ready, r) ==
    IF ~present
    THEN [ret |-> <<>>, cache |-> cache, how |-> "absent"]
    ELSE IF k = 1 \/ (k > 1 /\ ready)
    THEN LET got == Append(cache, ErrorMetric)
         IN  [ret |-> ApplySensorType(got, "scd4x"),
              cache |-> ApplySensorType(CacheAfterFault(cache, got), "scd4x"),
              how |-> "fault"]
    ELSE IF ready
    THEN LET ms == ApplySensorType(Scd4xSchema(r, t, serial), "scd4x")
         IN  [ret |-> ms, cache |-> ms, how |-> "ok"]
    ELSE LET ms == ApplySensorType(cache, "scd4x")
         IN  [ret |-> ms, cache |-> ms, how |-> "notready"]

\* init(): init_bme680() swallows its own exception, so init_scd4x() runs
\* whatever became of the BME680.
InitScd4xReached_skipped(bme_ok) == bme_ok
InitScd4xReached(bme_ok) == TRUE

\* init() once board.STEMMA_I2C() has returned the bus.
ManagerInit(bme_ok, scd_ok) ==
    /\ i2c' = "open"
    /\ bme680' = bme_ok
    /\ scd4x' = (InitScd4xReached(bme_ok) /\ scd_ok)
    /\ scd4x_serial_number' =
          IF InitScd4xReached(bme_ok) /\ scd_ok THEN "0x1" ELSE ""
    /\ bme680_last_measurement_time' = 0
    /\ scd4x_metrics' = <<>>
    /\ UNCHANGED bme680_metrics
    /\ init_result' = [bme680 |-> IF bme_ok THEN "ok" ELSE "failed",
                       scd4x |-> IF scd_ok THEN "ok" ELSE "failed"]
    /\ fresh' = [s \in Sensors |-> FALSE]
    /\ UNCHANGED <<ret, outcome, lastS>>

\* An exception no except clause takes: the program ends with a traceback.
Crash(w, k) ==
    /\ pc' = "crashed"
    /\ fault' = Fault(w, k)

\* --------------------------------------------------------- metrics_handler
Line(kind, name, value, labels) ==
    [kind |-> kind, name |-> name, value |-> value, labels |-> labels]

\* "# HELP", "# TYPE" and the sample line of one metric
MetricLines(name, value, labels) ==
    << Line("HELP", name, 0, {}), Line("TYPE", name, 0, {}),
       Line("SAMPLE", name, value, labels) >>

\* for metric in metrics: ...
RECURSIVE SensorLines(_)
SensorLines(ms) ==
    IF ms = <<>> THEN <<>>
    ELSE MetricLines(Head(ms).name, Head(ms).value, Head(ms).labels)
         \o SensorLines(Tail(ms))

\* for cpu_id, cpu in enumerate(cpus): ...  (cpu ids from..n-1)
RECURSIVE CpuLines(_, _)
CpuLines(from, n) ==
    IF from >= n THEN <<>>
    ELSE MetricLines("microcontroller_cpu_temperature_celsius", 0,
                     {<<"cpu", ToString(from)>>})
         \o MetricLines("microcontroller_cpu_frequency_hz", 0,
                        {<<"cpu", ToString(from)>>})
         \o CpuLines(from + 1, n)

\* response_text of metrics_handler; t is time.monotonic() while rendering
Render(ms, n, t, t0, ldt, lsut) ==
    SensorLines(ms)
    \o MetricLines("microcontroller_measurement_time_seconds", t - t0, {})
    \o CpuLines(0, n)
    \o MetricLines("microcontroller_last_discovery_time_seconds", ldt, {})
    \o MetricLines("microcontroller_next_discovery_time_seconds",
                   DISCOVERY_PERIOD - (t - ldt), {})
    \o MetricLines("microcontroller_last_screen_update_time_seconds", lsut, {})
    \o MetricLines("microcontroller_info", 1, {})

\* ------------------------------------------------------------- main loop
\* if current_time - last_discovery_time > DISCOVERY_PERIOD
DiscoveryDue_late(cur, last) ==
    cur - last > DISCOVERY_PERIOD + DISPLAY_UPDATE_INTERVAL
DiscoveryDue_ge(cur, last) == cur - last >= DISCOVERY_PERIOD
DiscoveryDue(cur, last) == cur - last > DISCOVERY_PERIOD

\* if current_time - last_screen_update_time > DISPLAY_UPDATE_INTERVAL
DisplayDue(cur, last) == cur - last > DISPLAY_UPDATE_INTERVAL

\* except OSError around server.poll()
PollCatches(kind) == kind = "OSError"

\* except (ValueError, RuntimeError, OSError, ConnectionError) around
\* temp_humidity_display.update_time()
TimeCatches(kind) == kind \in {"ValueError", "RuntimeError", "OSError"}

\* What the except clause around update_time() does: supervisor.reload().
AfterTimeFault_swallow == "sleep"
AfterTimeFault == "reload"

\* Whether w.feed() is reached at the end of an iteration that got to
\* time.sleep(): it is the last statement of the loop body, outside any if.
FeedReached_skip(refreshed) == ~refreshed
FeedReached(refreshed) == TRUE

\* The driver the refresh reads its values from: update_bme680(i2c_sm.bme680)
\* if the bme680 is present, elif the scd4x is, update_scd4x(i2c_sm.scd4x);
\* both format sensor.temperature and sensor.relative_humidity themselves.
DisplaySource_scd4xFirst(b, s) ==
    IF s THEN "scd4x" ELSE IF b THEN "bme680" ELSE "none"
DisplaySource(b, s) ==
    IF b THEN "bme680" ELSE IF s THEN "scd4x" ELSE "none"

\* Where control goes after i2c_sm.deinit(): to i2c_sm.init().
AfterDeinit_poll == "poll"
AfterDeinit == "init"

\* ---------------------------------------------------------------- Init
Init ==
    /\ pc = "boot"
    /\ now = 0
    /\ i2c = "none"
    /\ bme680 = FALSE
    /\ scd4x = FALSE
    /\ scd4x_serial_number = ""
    /\ bme680_metrics = <<>>
    /\ scd4x_metrics = <<>>
    /\ bme680_last_measurement_time = 0
    /\ last_discovery_time = 0
    /\ last_screen_update_time = 0
    /\ current_time = 0
    /\ wifi_tries = 0
    /\ restarts = 0
    /\ start_time = 0
    /\ metrics = <<>>
    /\ response = <<>>
    /\ ticks = 0
    /\ feeds = 0
    /\ fault = NoFault
    /\ ret = [s \in Sensors |-> <<>>]
    /\ outcome = [s \in Sensors |-> "none"]
    /\ lastS = [s \in Sensors |-> <<>>]
    /\ fresh = [s \in Sensors |-> FALSE]
    /\ init_result = [s \in Sensors |-> "none"]
    /\ prev_discovery_time = 0
    /\ reinit_tick = FALSE
    /\ absent_before = {}
    /\ display_read = "none"
    /\ reinit_active = FALSE
    /\ read_active = FALSE

loopVars == <<wifi_tries, restarts, start_time, metrics, response, ticks, feeds,
              prev_discovery_time, reinit_tick, absent_before, display_read, reinit_active, read_active>>

\* ------------------------------------------------------------- start-up
\* i2c_sm = I2CSensorsManager()
Construct ==
    /\ pc = "boot"
    /\ \/ \E bme_ok \in BOOLEAN, scd_ok \in BOOLEAN :
             /\ ManagerInit(bme_ok, scd_ok)
             /\ pc' = "wifi"
             /\ UNCHANGED fault
       \/ \E k \in ExcKinds :          \* board.STEMMA_I2C() raises
             /\ Crash("bus_acquire", k)
             /\ UNCHANGED <<mgrVars, readGhost, init_result>>
    /\ UNCHANGED <<now, timerVars, current_time, loopVars>>

\* connect_wifi: wifi.radio.connect() raises, sleep 3 s, try again
WifiRetry ==
    /\ pc = "wifi"
    /\ wifi_tries < MaxWifiRetries
    /\ now + WIFI_RETRY_SLEEP <= MaxTime
    /\ wifi_tries' = wifi_tries + 1
    /\ now' = now + WIFI_RETRY_SLEEP
    /\ UNCHANGED <<pc, restarts, mgrVars, readGhost, init_result, timerVars,
                   current_time, start_time, metrics, response, ticks, feeds,
                   fault, prev_discovery_time, reinit_tick, absent_before, display_read, reinit_active,
                   read_active>>

\* connect_wifi past the retry loop (NTP, RTC), Server(), and the two timers
WifiConnected ==
    /\ pc = "wifi"
    /\ \/ /\ last_discovery_time' = now
          /\ last_screen_update_time' = now
          /\ pc' = "display_init"
          /\ UNCHANGED fault
       \/ \E k \in ExcKinds :          \* ntp.datetime raises
             /\ Crash("ntp", k)
             /\ UNCHANGED timerVars
    /\ UNCHANGED <<now, mgrVars, readGhost, init_result, current_time,
                   loopVars>>

\* TempHumidityDisplay(), init(), update_ip_address(), server.start()
DisplayInit ==
    /\ pc = "display_init"
    /\ \/ /\ pc' = "loop"
          /\ UNCHANGED fault
       \/ \E k \in ExcKinds : Crash("display_init", k)
    /\ UNCHANGED <<now, mgrVars, readGhost, init_result, timerVars,
                   current_time, loopVars>>

\* ------------------------------------------------- one loop iteration
\* current_time = time.monotonic(); the discovery test
TickStart ==
    /\ pc = "loop"
    /\ ticks < MaxTicks
    /\ ticks' = ticks + 1
    /\ current_time' = now
    /\ prev_discovery_time' = last_discovery_time
    /\ reinit_tick' = FALSE
    /\ absent_before' = {}
    /\ display_read' = "none"
    /\ fault' = NoFault
    /\ metrics' = <<>>
    /\ response' = <<>>
    /\ ret' = [s \in Sensors |-> <<>>]
    /\ outcome' = [s \in Sensors |-> "none"]
    /\ pc' = IF DiscoveryDue(now, last_discovery_time) THEN "deinit" ELSE "poll"
    /\ UNCHANGED <<now, mgrVars, lastS, fresh, init_result, timerVars,
                   wifi_tries, restarts, start_time, feeds, reinit_active, read_active>>

\* i2c_sm.deinit()
Deinit ==
    /\ pc = "deinit"
    /\ reinit_tick' = TRUE
    /\ absent_before' = {s \in Sensors : ~(IF s = "bme680" THEN bme680 ELSE scd4x)}
    /\ reinit_active' = TRUE
    /\ \/ /\ i2c' = "none"
          /\ bme680' = FALSE
          /\ scd4x' = FALSE
          /\ pc' = AfterDeinit
          /\ UNCHANGED fault
       \/ \E k \in ExcKinds :          \* self._i2c.deinit() raises
             /\ Crash("bus_teardown", k)
             /\ UNCHANGED <<i2c, bme680, scd4x>>
    /\ UNCHANGED <<now, scd4x_serial_number, bme680_metrics,
                   scd4x_metrics, bme680_last_measurement_time, readGhost,
                   init_result, timerVars, current_time, wifi_tries, restarts,
                   start_time, metrics, response, ticks, feeds,
                   prev_discovery_time, display_read, read_active>>

\* i2c_sm.init(); last_discovery_time = current_time
Reinit ==
    /\ pc = "init"
    /\ \/ \E bme_ok \in BOOLEAN, scd_ok \in BOOLEAN :
             /\ ManagerInit(bme_ok, scd_ok)
             /\ last_discovery_time' = current_time
             /\ reinit_active' = FALSE
             /\ pc' = "poll"
             /\ UNCHANGED fault
       \/ \E k \in ExcKinds :          \* board.STEMMA_I2C() raises
             /\ Crash("bus_acquire", k)
             /\ UNCHANGED <<mgrVars, readGhost, init_result,
                            last_discovery_time, reinit_active>>
    /\ UNCHANGED <<now, last_screen_update_time, current_time,
                   wifi_tries, restarts, start_time, metrics, response, ticks, feeds,
                   prev_discovery_time, reinit_tick, absent_before, display_read,
                   read_active>>

\* server.poll() with no request pending, or raising by itself
Poll ==
    /\ pc = "poll"
    /\ \/ /\ pc' = "display"
          /\ UNCHANGED fault
       \/ \E k \in ExcKinds :
             IF PollCatches(k)
             THEN /\ pc' = "display"   \* print("pool_result error", e)
                  /\ fault' = Fault("poll", k)
             ELSE Crash("poll", k)
    /\ absent_before' = {}
    /\ UNCHANGED <<now, mgrVars, readGhost, init_result, timerVars,
                   current_time, wifi_tries, restarts, start_time, metrics,
                   response, ticks, feeds, prev_discovery_time, reinit_tick,
                   display_read, reinit_active, read_active>>

\* server.poll() accepts a GET /metrics and calls metrics_handler
PollRequest ==
    /\ pc = "poll"
    /\ pc' = "h_bme"
    /\ start_time' = now
    /\ metrics' = <<>>
    /\ read_active' = TRUE
    /\ absent_before' = {}
    /\ UNCHANGED <<now, mgrVars, readGhost, init_result, timerVars,
                   current_time, wifi_tries, restarts, response, ticks, feeds, fault,
                   prev_discovery_time, reinit_tick, display_read, reinit_active>>

\* read_metrics: metrics.extend(self.read_bme680())
HandlerReadBme680 ==
    /\ pc = "h_bme"
    /\ \E k \in 0..Bme680Fields, r \in Readings :
          LET res == ReadBme680(bme680, bme680_metrics,
                                bme680_last_measurement_time, now, k, r)
          IN  /\ bme680_metrics' = res.cache
              /\ bme680_last_measurement_time' = res.lmt
              /\ metrics' = metrics \o res.ret
              /\ ret' = [ret EXCEPT !.bme680 = res.ret]
              /\ outcome' = [outcome EXCEPT !.bme680 = res.how]
              /\ lastS' = IF res.how = "ok"
                          THEN [lastS EXCEPT !.bme680 = res.ret] ELSE lastS
              /\ fresh' = IF res.how = "ok"
                          THEN [fresh EXCEPT !.bme680 = TRUE] ELSE fresh
    /\ pc' = "h_scd"
    /\ UNCHANGED <<now, i2c, bme680, scd4x, scd4x_serial_number,
                   scd4x_metrics, init_result, timerVars, current_time,
                   wifi_tries, restarts, start_time, response, ticks, feeds, fault,
                   prev_discovery_time, reinit_tick, absent_before, display_read, reinit_active,
                   read_active>>

\* read_metrics: metrics.extend(self.read_scd4x()); return metrics
HandlerReadScd4x ==
    /\ pc = "h_scd"
    /\ \E k \in 0..Scd4xFields, ready \in BOOLEAN, r \in Readings :
          LET res == ReadScd4x(scd4x, scd4x_metrics, scd4x_serial_number,
                               now, k, ready, r)
          IN  /\ scd4x_metrics' = res.cache
              /\ metrics' = metrics \o res.ret
              /\ ret' = [ret EXCEPT !.scd4x = res.ret]
              /\ outcome' = [outcome EXCEPT !.scd4x = res.how]
              /\ lastS' = IF res.how = "ok"
                          THEN [lastS EXCEPT !.scd4x = res.ret] ELSE lastS
              /\ fresh' = IF res.how = "ok"
                          THEN [fresh EXCEPT !.scd4x = TRUE] ELSE fresh
    /\ \E d \in HandlerDurations : now + d <= MaxTime /\ now' = now + d
    /\ read_active' = FALSE
    /\ pc' = "h_render"
    /\ UNCHANGED <<i2c, bme680, scd4x, scd4x_serial_number,
                   bme680_metrics, bme680_last_measurement_time, init_result,
                   timerVars, current_time, wifi_tries, restarts, start_time, response,
                   ticks, feeds, fault, prev_discovery_time, reinit_tick, absent_before, display_read,
                   reinit_active>>

\* the rest of metrics_handler, and server.poll() sending the response
HandlerRender ==
    /\ pc = "h_render"
    /\ \/ /\ \E ncpus \in 1..MaxCpus :  \* len(microcontroller.cpus), or 1
                response' = Render(metrics, ncpus, now, start_time,
                                   last_discovery_time,
                                   last_screen_update_time)
          /\ \/ /\ pc' = "display"
                /\ UNCHANGED fault
             \/ /\ pc' = "display"     \* sending raises OSError: caught
                /\ fault' = Fault("poll", "OSError")
       \/ /\ Crash("handler", "AttributeError")   \* except AttributeError: raise
          /\ UNCHANGED response
    /\ metrics' = <<>>                 \* the handler is left
    /\ ret' = [s \in Sensors |-> <<>>]
    /\ outcome' = [s \in Sensors |-> "none"]
    /\ UNCHANGED <<now, mgrVars, lastS, fresh, init_result, timerVars,
                   current_time, wifi_tries, restarts, start_time, ticks,
                   feeds, prev_discovery_time, reinit_tick, absent_before, display_read,
                   reinit_active, read_active>>

\* the display test; update_bme680 / update_scd4x inside try ... except: pass
DisplayPush ==
    /\ pc = "display"
    /\ IF ~DisplayDue(current_time, last_screen_update_time)
       THEN /\ pc' = "sleep"
            /\ UNCHANGED <<fault, display_read>>
       ELSE /\ pc' = "d_time"
            /\ display_read' = DisplaySource(bme680, scd4x)
            /\ \/ UNCHANGED fault
               \/ /\ DisplaySource(bme680, scd4x) # "none"
                  \* sensor.temperature (or another attribute) raises
                  /\ \E k \in ExcKinds : fault' = Fault("display_push", k)
    /\ response' = <<>>                \* the response, if any, has been sent
    /\ metrics' = <<>>
    /\ UNCHANGED <<now, mgrVars, readGhost, init_result, timerVars,
                   current_time, wifi_tries, restarts, start_time, ticks, feeds,
                   prev_discovery_time, reinit_tick, absent_before, reinit_active,
                   read_active>>

\* update_time() inside try ... except (...): supervisor.reload()
DisplayTime ==
    /\ pc = "d_time"
    /\ \/ /\ last_screen_update_time' = current_time
          /\ pc' = "sleep"
          /\ UNCHANGED fault
       \/ \E k \in ExcKinds :
             /\ IF TimeCatches(k)
                THEN /\ pc' = AfterTimeFault
                     /\ fault' = Fault("display_time", k)
                ELSE Crash("display_time", k)
             /\ UNCHANGED last_screen_update_time
    /\ UNCHANGED <<now, mgrVars, readGhost, init_result,
                   last_discovery_time, current_time, loopVars>>

\* supervisor.reload(): the VM restarts code.py.  The restarted program
\* tests only differences of clock values, so its run is followed on a
\* clock whose origin is the restart.
Reload ==
    /\ pc = "reload"
    /\ restarts < MaxRestarts
    /\ restarts' = restarts + 1
    /\ pc' = "boot"
    /\ i2c' = "none"
    /\ bme680' = FALSE
    /\ scd4x' = FALSE
    /\ scd4x_serial_number' = ""
    /\ bme680_metrics' = <<>>
    /\ scd4x_metrics' = <<>>
    /\ bme680_last_measurement_time' = 0
    /\ last_discovery_time' = 0
    /\ last_screen_update_time' = 0
    /\ current_time' = 0
    /\ wifi_tries' = 0
    /\ start_time' = 0
    /\ metrics' = <<>>
    /\ response' = <<>>
    /\ ticks' = 0
    /\ feeds' = 0
    /\ fault' = NoFault
    /\ ret' = [s \in Sensors |-> <<>>]
    /\ outcome' = [s \in Sensors |-> "none"]
    /\ lastS' = [s \in Sensors |-> <<>>]
    /\ fresh' = [s \in Sensors |-> FALSE]
    /\ init_result' = [s \in Sensors |-> "none"]
    /\ prev_discovery_time' = 0
    /\ reinit_tick' = FALSE
    /\ absent_before' = {}
    /\ display_read' = "none"
    /\ reinit_active' = FALSE
    /\ read_active' = FALSE
    /\ now' = 0

\* time.sleep(MAIN_LOOP_DELAY); w.feed().  The iteration has lasted d seconds
\* when the clock is read again, the time spent in metrics_handler included.
SleepFeed ==
    /\ pc = "sleep"
    /\ \E d \in TickDurations :
          /\ current_time + d >= now
          /\ current_time + d <= MaxTime
          /\ now' = current_time + d
    /\ feeds' = IF FeedReached(last_screen_update_time = current_time)
                THEN feeds + 1 ELSE feeds
    /\ pc' = "loop"
    /\ fault' = NoFault                \* whatever was caught is behind
    /\ UNCHANGED <<mgrVars, readGhost, init_result, timerVars, current_time,
                   wifi_tries, restarts, start_time, metrics, response, ticks,
                   prev_discovery_time, reinit_tick, absent_before, display_read, reinit_active,
                   read_active>>

Next ==
    \/ Construct
    \/ WifiRetry
    \/ WifiConnected
    \/ DisplayInit
    \/ TickStart
    \/ Deinit
    \/ Reinit
    \/ Poll
    \/ PollRequest
    \/ HandlerReadBme680
    \/ HandlerReadScd4x
    \/ HandlerRender
    \/ DisplayPush
    \/ DisplayTime
    \/ Reload
    \/ SleepFeed

Spec == Init /\ [][Next]_vars

\* ---------------------------------------------- runs of unbounded length
\* The program tests only differences of clock values, so a run of any
\* length is followed on a clock whose origin moves to each new reading at
\* the top of the loop; the tick and feed counts start again with it.
\* time.sleep(MAIN_LOOP_DELAY); w.feed(), on the moving clock
SleepFeedRezero ==
    /\ pc = "sleep"
    /\ \E d \in TickDurations :
          /\ current_time + d >= now
          /\ now' = 0
          /\ last_discovery_time' = last_discovery_time - (current_time + d)
          /\ last_screen_update_time' =
                last_screen_update_time - (current_time + d)
          /\ prev_discovery_time' = last_discovery_time - (current_time + d)
          /\ current_time' = -d
    /\ ticks' = 0
    /\ feeds' = 0
    /\ pc' = "loop"
    /\ fault' = NoFault
    /\ UNCHANGED <<mgrVars, readGhost, init_result, wifi_tries, restarts,
                   start_time, metrics, response, reinit_tick, absent_before, display_read,
                   reinit_active, read_active>>

\* The main loop while no request arrives: requests touch neither the two
\* timers nor self.bme680 / self.scd4x.
LiveNext ==
    \/ Construct
    \/ WifiRetry
    \/ WifiConnected
    \/ DisplayInit
    \/ TickStart
    \/ Deinit
    \/ Reinit
    \/ Poll
    \/ DisplayPush
    \/ DisplayTime
    \/ Reload
    \/ SleepFeedRezero

\* i2c_sm.init() of a rediscovery in which the driver of s initialises.
ReinitOk(s) == Reinit /\ init_result'[s] = "ok"

\* The program is sequential and always takes its next step.  That each
\* sensor's initialisation succeeds at some rediscovery, if rediscoveries
\* keep coming, is the hypothesis of the recovery property.
LiveSpec ==
    /\ Init
    /\ [][LiveNext]_vars
    /\ WF_vars(LiveNext)
    /\ SF_vars(ReinitOk("bme680"))
    /\ SF_vars(ReinitOk("scd4x"))

TypeOK ==
    /\ pc \in {"boot", "wifi", "display_init", "loop", "deinit", "init",
               "poll", "h_bme", "h_scd", "h_render", "display", "d_time",
               "sleep", "reload", "crashed"}
    /\ now \in 0..MaxTime
    /\ ticks \in 0..MaxTicks
    /\ feeds \in 0..MaxTicks

\* ------------------------------------------------------------ properties
Cache(s) == IF s = "bme680" THEN bme680_metrics ELSE scd4x_metrics
Present(s) == IF s = "bme680" THEN bme680 ELSE scd4x
SensorTypesOf(m) == {kv[2] : kv \in {x \in m.labels : x[1] = "sensor_type"}}
Names(ms) == {ms[i].name : i \in 1..Len(ms)}
InTick == pc \in {"poll", "h_bme", "h_scd", "h_render", "display", "d_time",
                  "sleep"}

C2_Isolation ==
    /\ i2c = "open" =>
          \A s \in Sensors : Present(s) <=> init_result[s] = "ok"
    /\ pc = "h_render" =>
          /\ \A i \in 1..Len(metrics) :
                \E s \in Sensors : Present(s) /\ SensorTypesOf(metrics[i]) = {s}
          /\ \A i, j \in 1..Len(metrics) :
                (i < j) => ~(/\ SensorTypesOf(metrics[i]) = {"scd4x"}
                             /\ SensorTypesOf(metrics[j]) = {"bme680"})
          /\ \A s \in Sensors : ~Present(s) => ret[s] = <<>>

C2_Witness ==
    /\ pc = "h_render"
    /\ init_result["bme680"] = "failed"
    /\ init_result["scd4x"] = "ok"
    /\ outcome["scd4x"] = "ok"
    /\ Len(metrics) = Len(ret["scd4x"])
    /\ Len(metrics) > 0

\* C3: no exception leaves initialize(), read_all() or reinitialize(): the
\* program never ends on a fault of the bus teardown or the bus acquisition.
C3_ManagerNeverRaises ==
    ~(pc = "crashed" /\ fault.where \in {"bus_acquire", "bus_teardown"})

\* C4 as claimed: in a tick, deinit + init are called and last_discovery_time
\* becomes the tick's timestamp exactly when the elapsed time is >= 360.
C4_TimerGating_AsClaimed ==
    InTick =>
        IF current_time - prev_discovery_time >= DISCOVERY_PERIOD
        THEN reinit_tick /\ last_discovery_time = current_time
        ELSE ~reinit_tick /\ last_discovery_time = prev_discovery_time

\* C4: in a tick, deinit + init are called exactly when the elapsed time is
\* strictly greater than 360 s, and last_discovery_time is the tick's
\* timestamp once init() has returned; at 360 s or less neither happens.
C4_TimerGating ==
    /\ InTick =>
          IF current_time - prev_discovery_time > DISCOVERY_PERIOD
          THEN reinit_tick /\ last_discovery_time = current_time
          ELSE ~reinit_tick /\ last_discovery_time = prev_discovery_time
    /\ pc \in {"deinit", "init"} =>
          /\ current_time - prev_discovery_time > DISCOVERY_PERIOD
          /\ last_discovery_time = prev_discovery_time
    /\ reinit_tick => current_time - prev_discovery_time > DISCOVERY_PERIOD

C4_Witness ==
    /\ pc = "poll"
    /\ reinit_tick
    /\ current_time - prev_discovery_time > DISCOVERY_PERIOD
    /\ last_discovery_time = current_time

\* C5: every iteration of the loop feeds the watchdog exactly once: after N
\* iterations there were N feeds, inside the N-th there were N - 1.
C5_FeedEveryTick ==
    /\ pc = "loop" => feeds = ticks
    /\ InTick => feeds = ticks - 1

C5_Witness ==
    /\ pc = "loop"
    /\ ticks >= 3
    /\ feeds = ticks
    /\ reinit_tick
    /\ last_screen_update_time = current_time

\* C6: a reinitialisation is never in progress while read_metrics() is, no
\* poll starts before the tick's reinitialisation is over, and no read runs on
\* a manager whose bus is torn down.
C6_NoReinitDuringRead ==
    /\ ~(reinit_active /\ read_active)
    /\ pc \in {"poll", "h_bme", "h_scd", "h_render"} => ~reinit_active
    /\ read_active => i2c = "open"

C6_Witness ==
    /\ pc = "h_scd"
    /\ read_active
    /\ reinit_tick
    /\ ~reinit_active

\* C7 as claimed: any fault raised while the snapshot is pushed to the display
\* or the time field is updated leads to the restart.
C7_DisplayFaultFatal_AsClaimed ==
    fault.where \in {"display_push", "display_time"} => pc = "reload"

\* C7: a ValueError, RuntimeError or OSError (ConnectionError included)
\* raised by update_time() leads to the restart; a fault raised while the
\* snapshot is pushed is swallowed and the tick goes on to update_time().
C7_DisplayFaultFatal ==
    /\ (/\ fault.where = "display_time"
        /\ fault.kind \in {"ValueError", "RuntimeError", "OSError"})
          => pc = "reload"
    /\ fault.where = "display_push" => pc \in {"d_time", "sleep"}

C7_Witness ==
    /\ pc = "reload"
    /\ fault.where = "display_time"
    /\ ticks >= 1

\* C8: a fault raised by server.poll(), of any kind and also while a request
\* is processed, never ends the program.
C8_PollFaultIgnored ==
    ~(pc = "crashed" /\ fault.where \in {"poll", "handler"})

\* C9: once the loop runs, no sensor, bus, network or request fault ends it;
\* it leaves only through the restart of the display refresh.
C9_LoopNeverEnds ==
    ~(pc = "crashed" /\ ticks > 0 /\ fault.where # "display_time")

\* C10: in a response no metric name has two HELP lines or two TYPE lines.
C10_NoDuplicateHelpType ==
    \A i, j \in 1..Len(response) :
        (/\ i < j
         /\ response[i].kind \in {"HELP", "TYPE"}
         /\ response[i].kind = response[j].kind)
            => response[i].name # response[j].name


\* C11: a missing device-info attribute met while a request is served does
\* not abort the render: a response is still returned.
C11_DeviceInfoNeverAborts ==
    fault.where = "handler" => (pc # "crashed" /\ Len(response) > 0)

\* C12: nothing cached survives a reinitialisation: a sensor that was not
\* read with success since the last init() has an empty cache, and a read of
\* it that faults returns the error metric alone.
C12_NoStateAcrossDiscovery ==
    \A s \in Sensors :
        ~fresh[s] =>
            /\ Cache(s) = <<>>
            /\ outcome[s] = "fault" => Len(ret[s]) = 1

\* C13: a read of a present sensor that faults, no read of that sensor having
\* succeeded since the manager was constructed, returns one measurement:
\* sensor_is_error with value 1.
C13_FallbackWithoutCache ==
    \A s \in Sensors :
        (outcome[s] = "fault" /\ lastS[s] = <<>>) =>
            /\ Len(ret[s]) = 1
            /\ ret[s][1].name = "sensor_is_error"
            /\ ret[s][1].value = 1

C13_Witness ==
    /\ pc = "h_render"
    /\ \A s \in Sensors :
          Present(s) /\ outcome[s] = "fault" /\ lastS[s] = <<>>

\* C14: when the scd4x reports data not ready, the read returns the cached
\* set (empty before the first success since init()), without sensor_is_error,
\* and the cache is what it was.
C14_NotReadyNoOp ==
    outcome["scd4x"] = "notready" =>
        /\ ret["scd4x"] = scd4x_metrics
        /\ scd4x_metrics = IF fresh["scd4x"] THEN lastS["scd4x"] ELSE <<>>
        /\ "sensor_is_error" \notin Names(ret["scd4x"])

C14_Witness ==
    /\ pc = "h_render"
    /\ outcome["scd4x"] = "notready"
    /\ fresh["scd4x"]
    /\ Len(ret["scd4x"]) > 0

\* C15: every measurement a read returns or a cache holds, the error metric
\* included, carries the sensor_type of the sensor it belongs to and no other.
C15_SensorTypeLabel ==
    \A s \in Sensors :
        /\ \A i \in 1..Len(ret[s]) : SensorTypesOf(ret[s][i]) = {s}
        /\ \A i \in 1..Len(Cache(s)) : SensorTypesOf(Cache(s)[i]) = {s}

C15_Witness ==
    /\ pc = "h_render"
    /\ reinit_tick
    /\ outcome["bme680"] = "fault"
    /\ Len(ret["bme680"]) > 1
    /\ outcome["scd4x"] = "ok"

\* C16 as claimed: the display phase reads no driver, so it accesses no bus
\* and meets no sensor-read fault.
C16_DisplayFromCache_AsClaimed ==
    display_read = "none" /\ fault.where # "display_push"

\* C16: a refresh reads its values from a driver: from the bme680 if it is
\* present, otherwise from the scd4x if that is present, from none when both
\* are absent; only such a read can fault in the push, and the fault is
\* swallowed (the tick goes on to update_time()).
C16_DisplayFromDriver ==
    /\ pc = "d_time" =>
          /\ bme680 => display_read = "bme680"
          /\ (~bme680 /\ scd4x) => display_read = "scd4x"
          /\ (~bme680 /\ ~scd4x) => display_read = "none"
    /\ fault.where = "display_push" =>
          /\ display_read # "none"
          /\ pc \in {"d_time", "sleep"}
    /\ display_read # "none" => Present(display_read)

C16_Witness ==
    /\ pc = "d_time"
    /\ display_read = "scd4x"
    /\ fault.where = "display_push"
    /\ scd4x_metrics = <<>>

NextDiscoveryValues ==
    {response[i].value : i \in
        {j \in 1..Len(response) :
            /\ response[j].kind = "SAMPLE"
            /\ response[j].name =
                  "microcontroller_next_discovery_time_seconds"}}

\* C18 as claimed: while a request is served the time elapsed since
\* last_discovery_time is at most DISCOVERY_PERIOD, and the reported
\* microcontroller_next_discovery_time_seconds is never negative.
C18_NextDiscoveryNonNegative_AsClaimed ==
    /\ pc \in {"h_bme", "h_scd", "h_render"} =>
          now - last_discovery_time <= DISCOVERY_PERIOD
    /\ \A v \in NextDiscoveryValues : v >= 0

\* C18: while a request is served the elapsed time the tick's discovery test
\* saw (current_time - last_discovery_time) is at most DISCOVERY_PERIOD; the
\* reported value is below zero by no more than the time that has passed
\* since the tick read the clock.
C18_NextDiscoveryBounded ==
    /\ pc \in {"h_bme", "h_scd", "h_render"} =>
          current_time - last_discovery_time <= DISCOVERY_PERIOD
    /\ \A v \in NextDiscoveryValues :
          /\ v >= -(now - current_time)
          /\ v <= DISCOVERY_PERIOD

C18_Witness ==
    /\ pc = "display"
    /\ \E v \in NextDiscoveryValues : v < 0

\* C19: the watchdog is fed only by the step that ends an iteration of the
\* loop, after its sleep: never during start-up (manager construction, WiFi
\* retries, time synchronisation, display initialisation) and never in the
\* iteration whose update_time() fault leads to the restart.
C19_FeedOnlyAtTickEnd ==
    /\ [][feeds' > feeds =>
            (pc = "sleep" /\ pc' = "loop" /\ fault.where # "display_time")]_vars
    /\ [](pc \in {"boot", "wifi", "display_init"} => feeds = 0)
    /\ [](pc = "reload" => feeds = ticks - 1)

C19_Witness ==
    /\ pc = "reload"
    /\ wifi_tries >= 1
    /\ ticks >= 2
    /\ feeds = ticks - 1


\* The run has ended: an uncaught exception, or the restart.
Fatal == pc \in {"crashed", "reload"}

\* C17: in a run whose ticks keep occurring and that meets no fatal fault, a
\* sensor whose slot is absent is present again later, provided its
\* initialisation succeeds at some rediscovery; and rediscoveries recur
\* without end.
C17_Recovery ==
    /\ \A s \in Sensors :
          [](( i2c = "open" /\ ~Present(s)) => <>(Present(s) \/ Fatal))
    /\ []<>((pc = "poll" /\ reinit_tick) \/ Fatal)

\* a rediscovery has just brought back the BME680, absent until then, while
\* the SCD4X slot stays absent
C17_Witness ==
    /\ pc = "poll"
    /\ reinit_tick
    /\ "bme680" \in absent_before
    /\ Present("bme680")
    /\ ~Present("scd4x")

====
